---- MODULE Spec2Model ----
(***************************************************************************)
(* Model of rusty-curves: modular field elements (src/src/felt/felt.rs),   *)
(* curve points with the group law and the two discrete-logarithm solvers  *)
(* (src/src/ec/ec_point.rs).                                               *)
(*                                                                         *)
(* Values.  A Felt is [value, modulus].  An ECPoint is                     *)
(* [x, y, a, b, infinity].  Result<T, E> is [ok |-> t] or [err |-> ...],   *)
(* Option<u64> is [some |-> k] or [none |-> TRUE].  A panic (abort) of an  *)
(* expression is the value [panic |-> message]; every operator hands a     *)
(* panic of an operand on, leftmost operand first, as Rust evaluates.      *)
(*                                                                         *)
(* All moduli of the model are far below 2^32, so no u64 sum or product    *)
(* of residues wraps: the model covers the range in which the code's       *)
(* fixed-width arithmetic is exact.                                        *)
(***************************************************************************)
EXTENDS Integers, FiniteSets, Sequences, TLC

\* Bounds of the model.
\* Moduli are 2..MaxModulus.
MaxModulus == 7
\* Raw values handed to Felt::new are 0..MaxRaw.
MaxRaw == 15
\* Exponents handed to pow are 0..MaxExp.
MaxExp == 4
\* Moduli that occur in arguments of mixed moduli are 2..MaxMixModulus.
MaxMixModulus == 3
\* Scalars handed to Mul<u64> are 0..MaxK.
MaxK == 14
\* Cap on the iterations of the while loops whose exit depends on the group.
MaxSteps == 15

VARIABLES
    op,      \* the public operation that was called ("none" before any call)
    args,    \* its arguments
    pc,      \* "idle", a loop label of the running operation, "done" or "panic"
    frame,   \* the local variables of the running operation
    ret      \* the value returned, or the panic that ended the call

vars == <<op, args, pc, frame, ret>>

Panic(msg) == [panic |-> msg]
IsPanic(v) == "panic" \in DOMAIN v
Ok(v) == [ok |-> v]
IsOk(r) == "ok" \in DOMAIN r
IsErr(r) == "err" \in DOMAIN r
Some(k) == [some |-> k]
None == [none |-> TRUE]
NoValue == [unset |-> TRUE]

(***************************************************************************)
(* Field elements: src/src/felt/felt.rs                                    *)
(***************************************************************************)
Felt_new(value, modulus) ==
    IF modulus = 0
    THEN Panic("attempt to calculate the remainder with a divisor of zero")
    ELSE [value |-> value % modulus, modulus |-> modulus]

Felt_add(self, other) ==
    IF IsPanic(self) THEN self
    ELSE IF IsPanic(other) THEN other
    ELSE IF self.modulus # other.modulus
    THEN Panic("Cannot add two Felt values with different moduli")
    ELSE Felt_new(self.value + other.value, self.modulus)

\* Mutant: the moduli are not compared; the left modulus is taken.
Felt_sub_unchecked(self, other) ==
    IF IsPanic(self) THEN self
    ELSE IF IsPanic(other) THEN other
    ELSE IF self.value < other.value
    THEN Felt_new(self.value + self.modulus - other.value, self.modulus)
    ELSE Felt_new(self.value - other.value, self.modulus)

Felt_sub(self, other) ==
    IF IsPanic(self) THEN self
    ELSE IF IsPanic(other) THEN other
    ELSE IF self.modulus # other.modulus
    THEN Panic("Cannot subtract two Felt values with different moduli")
    ELSE IF self.value < other.value
    THEN Felt_new(self.value + self.modulus - other.value, self.modulus)
    ELSE Felt_new(self.value - other.value, self.modulus)

Felt_mul(self, other) ==
    IF IsPanic(self) THEN self
    ELSE IF IsPanic(other) THEN other
    ELSE IF self.modulus # other.modulus
    THEN Panic("Cannot multiply two Felt values with different moduli")
    ELSE Felt_new(self.value * other.value, self.modulus)

\* Mutant: the difference is not reduced.
Felt_neg_unreduced(self) ==
    IF IsPanic(self) THEN self
    ELSE [value |-> self.modulus - self.value, modulus |-> self.modulus]

Felt_neg(self) ==
    IF IsPanic(self) THEN self
    ELSE Felt_new(self.modulus - self.value, self.modulus)

\* The while loop of Felt::inverse; yields the final <<t, r>>.
RECURSIVE inverse_loop(_, _, _, _)
inverse_loop(t, new_t, r, new_r) ==
    IF new_r # 0
    THEN LET quotient == r \div new_r
         IN  inverse_loop(new_t, t - quotient * new_t, new_r, r - quotient * new_r)
    ELSE <<t, r>>

\* Mutant: only the zero element is refused.
Felt_inverse_refusing_zero_only(self) ==
    LET tr == inverse_loop(0, 1, self.modulus, self.value)
        t == tr[1]
    IN  IF self.value = 0
        THEN [err |-> "NotInvertible", value |-> self.value, modulus |-> self.modulus]
        ELSE Ok(Felt_new(IF t < 0 THEN t + self.modulus ELSE t, self.modulus))

Felt_inverse(self) ==
    LET tr == inverse_loop(0, 1, self.modulus, self.value)
        t == tr[1]
        r == tr[2]
    IN  IF r > 1
        THEN [err |-> "NotInvertible", value |-> self.value, modulus |-> self.modulus]
        ELSE Ok(Felt_new(IF t < 0 THEN t + self.modulus ELSE t, self.modulus))

\* The while loop of Felt::pow.
RECURSIVE pow_loop(_, _, _)
pow_loop(result, base, exp) ==
    IF exp > 0
    THEN pow_loop(IF exp % 2 = 1 THEN Felt_mul(result, base) ELSE result,
                  Felt_mul(base, base),
                  exp \div 2)
    ELSE result

Felt_pow(self, exponent) ==
    IF IsPanic(self) THEN self
    ELSE pow_loop(Felt_new(1, self.modulus), self, exponent)

\* Mutant: a zero divisor is answered with an error value.
Felt_div_zero_as_result(self, other) ==
    IF IsPanic(self) THEN self
    ELSE IF IsPanic(other) THEN other
    ELSE IF self.modulus # other.modulus
    THEN Panic("Cannot divide two Felt values with different moduli")
    ELSE IF other.value = 0
    THEN [err |-> "DivisionByZero"]
    ELSE LET inv == Felt_inverse(other)
         IN  IF IsOk(inv)
             THEN Felt_mul(self, inv.ok)
             ELSE Panic("is not invertible")

\* Mutant: a zero divisor is left to the inverse.
Felt_div_without_zero_check(self, other) ==
    IF IsPanic(self) THEN self
    ELSE IF IsPanic(other) THEN other
    ELSE IF self.modulus # other.modulus
    THEN Panic("Cannot divide two Felt values with different moduli")
    ELSE LET inv == Felt_inverse(other)
         IN  IF IsOk(inv)
             THEN Felt_mul(self, inv.ok)
             ELSE Panic("is not invertible")

Felt_div(self, other) ==
    IF IsPanic(self) THEN self
    ELSE IF IsPanic(other) THEN other
    ELSE IF self.modulus # other.modulus
    THEN Panic("Cannot divide two Felt values with different moduli")
    ELSE IF other.value = 0
    THEN Panic("Cannot divide by zero")
    ELSE LET inv == Felt_inverse(other)
         IN  IF IsOk(inv)
             THEN Felt_mul(self, inv.ok)
             ELSE Panic("is not invertible")

(***************************************************************************)
(* Curve points: src/src/ec/ec_point.rs                                    *)
(***************************************************************************)
unwrap(r) ==
    IF IsPanic(r) THEN r
    ELSE IF IsOk(r) THEN r.ok
    ELSE Panic("called unwrap on an Err value")

\* Mutant: the constant term of the curve is left out.
verify_point_without_b(self) ==
    LET lhs == Felt_pow(self.y, 2)
        rhs == Felt_add(Felt_pow(self.x, 3), Felt_mul(self.a, self.x))
    IN  IF IsPanic(lhs) THEN lhs
        ELSE IF IsPanic(rhs) THEN rhs
        ELSE IF lhs = rhs
        THEN Ok(TRUE)
        ELSE [err |-> "PointNotOnCurve", x |-> self.x.value, y |-> self.y.value,
              a |-> self.a.value, b |-> self.b.value]

verify_point(self) ==
    LET lhs == Felt_pow(self.y, 2)
        rhs == Felt_add(Felt_add(Felt_pow(self.x, 3), Felt_mul(self.a, self.x)), self.b)
    IN  IF IsPanic(lhs) THEN lhs
        ELSE IF IsPanic(rhs) THEN rhs
        ELSE IF lhs = rhs
        THEN Ok(TRUE)
        ELSE [err |-> "PointNotOnCurve", x |-> self.x.value, y |-> self.y.value,
              a |-> self.a.value, b |-> self.b.value]

ECPoint_new(x, y, a, b) ==
    LET point == [x |-> x, y |-> y, a |-> a, b |-> b, infinity |-> FALSE]
        verified == verify_point(point)
    IN  IF IsOk(verified) THEN Ok(point) ELSE verified

ECPoint_infinity(a, b) ==
    [x |-> Felt_new(0, a.modulus), y |-> Felt_new(0, a.modulus),
     a |-> a, b |-> b, infinity |-> TRUE]

ECPoint_neg(self) ==
    IF IsPanic(self) THEN self
    ELSE IF self.infinity THEN self
    ELSE unwrap(ECPoint_new(self.x, Felt_neg(self.y), self.a, self.b))

\* The slope and the resulting point of the doubling and general cases of add.
add_slope(self, other) ==
    IF self = other
    THEN LET felt_3 == Felt_new(3, self.a.modulus)
             felt_2 == Felt_new(2, self.a.modulus)
         IN  Felt_div(Felt_add(Felt_mul(felt_3, Felt_pow(self.x, 2)), self.a),
                      Felt_mul(felt_2, self.y))
    ELSE Felt_div(Felt_sub(other.y, self.y), Felt_sub(other.x, self.x))

\* Mutant: the new y is taken relative to the new x instead of self.x.
add_chord_from_new_x(self, other) ==
    LET s == add_slope(self, other)
        x == Felt_sub(Felt_sub(Felt_pow(s, 2), self.x), other.x)
        y == Felt_sub(Felt_mul(s, Felt_sub(x, self.x)), self.y)
    IN  IF IsPanic(x) THEN x
        ELSE IF IsPanic(y) THEN y
        ELSE unwrap(ECPoint_new(x, y, self.a, self.b))

add_chord(self, other) ==
    LET s == add_slope(self, other)
        x == Felt_sub(Felt_sub(Felt_pow(s, 2), self.x), other.x)
        y == Felt_sub(Felt_mul(s, Felt_sub(self.x, x)), self.y)
    IN  IF IsPanic(x) THEN x
        ELSE IF IsPanic(y) THEN y
        ELSE unwrap(ECPoint_new(x, y, self.a, self.b))

\* Mutant: the doubling case is tried ahead of the case P == -Q.
ECPoint_add_doubling_first(self, other) ==
    IF IsPanic(self) THEN self
    ELSE IF IsPanic(other) THEN other
    ELSE IF self.a # other.a \/ self.b # other.b
    THEN Panic("Points are not on the same curve")
    ELSE IF self.infinity THEN other
    ELSE IF other.infinity THEN self
    ELSE IF self = other THEN add_chord(self, other)
    ELSE LET neg_other == ECPoint_neg(other)
         IN  IF IsPanic(neg_other) THEN neg_other
             ELSE IF self = neg_other THEN ECPoint_infinity(self.a, self.b)
             ELSE add_chord(self, other)

\* Mutant: the identity cases are tried before the curves are compared.
ECPoint_add_identity_first(self, other) ==
    IF IsPanic(self) THEN self
    ELSE IF IsPanic(other) THEN other
    ELSE IF self.infinity THEN other
    ELSE IF other.infinity THEN self
    ELSE IF self.a # other.a \/ self.b # other.b
    THEN Panic("Points are not on the same curve")
    ELSE LET neg_other == ECPoint_neg(other)
         IN  IF IsPanic(neg_other) THEN neg_other
             ELSE IF self = neg_other THEN ECPoint_infinity(self.a, self.b)
             ELSE add_chord(self, other)

\* Mutant: the case P == -Q is not told apart from the general case.
ECPoint_add_without_inverse_case(self, other) ==
    IF IsPanic(self) THEN self
    ELSE IF IsPanic(other) THEN other
    ELSE IF self.a # other.a \/ self.b # other.b
    THEN Panic("Points are not on the same curve")
    ELSE IF self.infinity THEN other
    ELSE IF other.infinity THEN self
    ELSE add_chord(self, other)

ECPoint_add(self, other) ==
    IF IsPanic(self) THEN self
    ELSE IF IsPanic(other) THEN other
    ELSE IF self.a # other.a \/ self.b # other.b
    THEN Panic("Points are not on the same curve")
    ELSE IF self.infinity THEN other
    ELSE IF other.infinity THEN self
    ELSE LET neg_other == ECPoint_neg(other)
         IN  IF IsPanic(neg_other) THEN neg_other
             ELSE IF self = neg_other THEN ECPoint_infinity(self.a, self.b)
             ELSE add_chord(self, other)

\* Mutant: current is doubled only when the bit is set.
RECURSIVE mul_loop_doubling_in_branch(_, _, _)
mul_loop_doubling_in_branch(result, current, i) ==
    IF IsPanic(result) THEN result
    ELSE IF IsPanic(current) THEN current
    ELSE IF i > 0
    THEN mul_loop_doubling_in_branch(
             IF i % 2 = 1 THEN ECPoint_add(result, current) ELSE result,
             IF i % 2 = 1 THEN ECPoint_add(current, current) ELSE current,
             i \div 2)
    ELSE result

\* The while loop of Mul<u64> for ECPoint.
RECURSIVE mul_loop(_, _, _)
mul_loop(result, current, i) ==
    IF IsPanic(result) THEN result
    ELSE IF IsPanic(current) THEN current
    ELSE IF i > 0
    THEN mul_loop(IF i % 2 = 1 THEN ECPoint_add(result, current) ELSE result,
                  ECPoint_add(current, current),
                  i \div 2)
    ELSE result

ECPoint_mul(self, other) ==
    mul_loop(ECPoint_infinity(self.a, self.b), self, other)

\* Mul<ECPoint> for u64.
u64_mul(self, other) == ECPoint_mul(other, self)

\* The ceiling of the square root of the order, exact for the orders of the model.
ceil_sqrt(n) == CHOOSE r \in 0..n : r * r >= n /\ \A q \in 0..(r - 1) : q * q < n

(***************************************************************************)
(* The values the operations are called with.                              *)
(***************************************************************************)
Moduli == 2..MaxModulus
IsPrime(n) == n > 1 /\ \A d \in 2..(n - 1) : n % d # 0
Primes == {n \in Moduli : IsPrime(n)}
FeltsOf(modulus) == {Felt_new(v, modulus) : v \in 0..(modulus - 1)}
Felts == UNION {FeltsOf(modulus) : modulus \in Moduli}
MixFelts == UNION {FeltsOf(modulus) : modulus \in 2..MaxMixModulus}

\* The points of one modulus that the two constructors return.
PointsOf(modulus) ==
    LET F == FeltsOf(modulus)
    IN  {ECPoint_new(q[1], q[2], q[3], q[4]).ok :
            q \in {t \in F \X F \X F \X F : IsOk(ECPoint_new(t[1], t[2], t[3], t[4]))}}
        \cup {ECPoint_infinity(c[1], c[2]) : c \in F \X F}
Points == UNION {PointsOf(modulus) : modulus \in Moduli}
PrimePoints == UNION {PointsOf(modulus) : modulus \in Primes}
SameCurve(P, Q) == P.a = Q.a /\ P.b = Q.b
IsPoint(v) == DOMAIN v = {"x", "y", "a", "b", "infinity"}
IsFelt(v) == DOMAIN v = {"value", "modulus"}

\* Second operands of add: the same curve, a curve that differs in one
\* parameter, or any curve of the small moduli (also of another modulus).
AddOperands(P) ==
    {Q \in PrimePoints : Q.a = P.a \/ Q.b = P.b \/ Q.a.modulus <= MaxMixModulus}
\* Arguments of ECPoint::new: four elements of one modulus, or of mixed small moduli.
NewArguments ==
    UNION {FeltsOf(modulus) \X FeltsOf(modulus) \X FeltsOf(modulus) \X FeltsOf(modulus) :
              modulus \in Moduli}
    \cup (MixFelts \X MixFelts \X MixFelts \X MixFelts)

(***************************************************************************)
(* The state machine: the program makes one call of a public operation on  *)
(* values it built with the constructors; the call returns or panics.      *)
(***************************************************************************)
Init ==
    /\ op = "none"
    /\ args = NoValue
    /\ pc = "idle"
    /\ frame = NoValue
    /\ ret = NoValue

CanCall == pc = "idle"

\* A call that runs to its end in one step.
Returns(name, arguments, value) ==
    /\ op' = name
    /\ args' = arguments
    /\ ret' = value
    /\ pc' = IF IsPanic(value) THEN "panic" ELSE "done"
    /\ frame' = NoValue

Call_Felt_new ==
    /\ CanCall
    /\ \E value \in 0..MaxRaw, modulus \in Moduli :
            Returns("Felt::new", [value |-> value, modulus |-> modulus],
                    Felt_new(value, modulus))

Call_Felt_add ==
    /\ CanCall
    /\ \E self \in Felts, other \in Felts :
            Returns("Felt::add", [self |-> self, other |-> other], Felt_add(self, other))

Call_Felt_sub ==
    /\ CanCall
    /\ \E self \in Felts, other \in Felts :
            Returns("Felt::sub", [self |-> self, other |-> other], Felt_sub(self, other))

Call_Felt_mul ==
    /\ CanCall
    /\ \E self \in Felts, other \in Felts :
            Returns("Felt::mul", [self |-> self, other |-> other], Felt_mul(self, other))

Call_Felt_div ==
    /\ CanCall
    /\ \E self \in Felts, other \in Felts :
            Returns("Felt::div", [self |-> self, other |-> other], Felt_div(self, other))

Call_Felt_neg ==
    /\ CanCall
    /\ \E self \in Felts :
            Returns("Felt::neg", [self |-> self], Felt_neg(self))

Call_Felt_inverse ==
    /\ CanCall
    /\ \E self \in Felts :
            Returns("Felt::inverse", [self |-> self], Felt_inverse(self))

Call_Felt_pow ==
    /\ CanCall
    /\ \E self \in Felts, exponent \in 0..MaxExp :
            Returns("Felt::pow", [self |-> self, exponent |-> exponent],
                    Felt_pow(self, exponent))

Call_ECPoint_new ==
    /\ CanCall
    /\ \E t \in NewArguments :
            Returns("ECPoint::new", [x |-> t[1], y |-> t[2], a |-> t[3], b |-> t[4]],
                    ECPoint_new(t[1], t[2], t[3], t[4]))

Call_ECPoint_infinity ==
    /\ CanCall
    /\ \E a \in Felts, b \in Felts :
            Returns("ECPoint::infinity", [a |-> a, b |-> b], ECPoint_infinity(a, b))

Call_ECPoint_add ==
    /\ CanCall
    /\ \E self \in PrimePoints :
            \E other \in AddOperands(self) :
                Returns("ECPoint::add", [self |-> self, other |-> other],
                        ECPoint_add(self, other))

Call_ECPoint_neg ==
    /\ CanCall
    /\ \E self \in PrimePoints :
            Returns("ECPoint::neg", [self |-> self], ECPoint_neg(self))

Call_ECPoint_mul ==
    /\ CanCall
    /\ \E self \in PrimePoints, other \in 0..MaxK :
            Returns("ECPoint::mul", [self |-> self, other |-> other],
                    ECPoint_mul(self, other))

Call_u64_mul ==
    /\ CanCall
    /\ \E self \in 0..MaxK, other \in PrimePoints :
            Returns("u64::mul", [self |-> self, other |-> other], u64_mul(self, other))

(***************************************************************************)
(* order and the two solvers, one loop iteration per step.                 *)
(***************************************************************************)
U64(n) == [u64 |-> n]

\* Mutant: the count starts at 0.
order_frame_from_zero(self) ==
    [gi |-> self, order |-> 0, infinity |-> ECPoint_infinity(self.a, self.b)]

\* The locals of order() at its first loop test.
order_frame(self) ==
    [gi |-> self, order |-> 1, infinity |-> ECPoint_infinity(self.a, self.b)]

\* A step that ends in a panic of the value it computed.
Aborts(value) ==
    /\ pc' = "panic"
    /\ ret' = value
    /\ UNCHANGED <<op, args, frame>>

Call_order ==
    /\ CanCall
    /\ \E self \in PrimePoints :
        /\ op' = "order"
        /\ args' = [self |-> self]
        /\ frame' = order_frame(self)
    /\ pc' = "order_loop"
    /\ ret' = NoValue

\* while gi != infinity { order += 1; gi += *self; }
order_step ==
    /\ pc = "order_loop"
    /\ frame.gi # frame.infinity
    /\ frame.order < MaxSteps
    /\ LET gi == ECPoint_add(frame.gi, args.self)
       IN  IF IsPanic(gi)
           THEN Aborts(gi)
           ELSE /\ frame' = [frame EXCEPT !.order = @ + 1, !.gi = gi]
                /\ UNCHANGED <<op, args, pc, ret>>

\* The loop of order() ends: order() returns to its caller.
order_return ==
    /\ pc = "order_loop"
    /\ frame.gi = frame.infinity
    /\ IF op = "order"
       THEN /\ ret' = U64(frame.order)
            /\ pc' = "done"
            /\ UNCHANGED <<op, args, frame>>
       ELSE /\ frame' = [m |-> ceil_sqrt(frame.order),
                         baby_steps |-> [q \in {} |-> 0],
                         pi |-> args.self,
                         i |-> 1]
            /\ pc' = "baby_loop"
            /\ UNCHANGED <<op, args, ret>>

Call_solve_dlp_brute_force ==
    /\ CanCall
    /\ \E self \in PrimePoints :
        \E target \in {T \in PrimePoints : SameCurve(self, T)} :
            /\ op' = "solve_dlp_brute_force"
            /\ args' = [self |-> self, target |-> target]
            /\ frame' = [xp |-> self, x |-> 1,
                         infinity |-> ECPoint_infinity(self.a, self.b)]
    /\ pc' = "brute_loop"
    /\ ret' = NoValue

\* Mutant: the counter is advanced before the comparison is reported.
brute_found_off_by_one ==
    /\ pc = "brute_loop"
    /\ frame.xp # frame.infinity
    /\ frame.xp = args.target
    /\ ret' = Some(frame.x + 1)
    /\ pc' = "done"
    /\ UNCHANGED <<op, args, frame>>

\* if xp == target { return Some(x); }
brute_found ==
    /\ pc = "brute_loop"
    /\ frame.xp # frame.infinity
    /\ frame.xp = args.target
    /\ ret' = Some(frame.x)
    /\ pc' = "done"
    /\ UNCHANGED <<op, args, frame>>

\* x += 1; xp += *self;
brute_step ==
    /\ pc = "brute_loop"
    /\ frame.xp # frame.infinity
    /\ frame.xp # args.target
    /\ frame.x < MaxSteps
    /\ LET xp == ECPoint_add(frame.xp, args.self)
       IN  IF IsPanic(xp)
           THEN Aborts(xp)
           ELSE /\ frame' = [frame EXCEPT !.x = @ + 1, !.xp = xp]
                /\ UNCHANGED <<op, args, pc, ret>>

\* The walk reached infinity: None.
brute_none ==
    /\ pc = "brute_loop"
    /\ frame.xp = frame.infinity
    /\ ret' = None
    /\ pc' = "done"
    /\ UNCHANGED <<op, args, frame>>

\* solve_dlp_baby_step_giant_step starts with self.order().
Call_solve_dlp_baby_step_giant_step ==
    /\ CanCall
    /\ \E self \in PrimePoints :
        \E target \in {T \in PrimePoints : SameCurve(self, T)} :
            /\ op' = "solve_dlp_baby_step_giant_step"
            /\ args' = [self |-> self, target |-> target]
            /\ frame' = order_frame(self)
    /\ pc' = "order_loop"
    /\ ret' = NoValue

\* HashMap::insert: a later value replaces an earlier one of the same key.
insert(map, key, value) ==
    [q \in DOMAIN map \cup {key} |-> IF q = key THEN value ELSE map[q]]

\* for i in 1..m { baby_steps.insert(pi, i); pi += *self; }
baby_step ==
    /\ pc = "baby_loop"
    /\ frame.i < frame.m
    /\ LET pi == ECPoint_add(frame.pi, args.self)
       IN  IF IsPanic(pi)
           THEN Aborts(pi)
           ELSE /\ frame' = [frame EXCEPT
                                !.baby_steps = insert(@, frame.pi, frame.i),
                                !.pi = pi,
                                !.i = @ + 1]
                /\ UNCHANGED <<op, args, pc, ret>>

\* let mp = m * *self; let mut jmp = ECPoint::infinity(self.a, self.b);
baby_done ==
    /\ pc = "baby_loop"
    /\ frame.i >= frame.m
    /\ LET mp == u64_mul(frame.m, args.self)
       IN  IF IsPanic(mp)
           THEN Aborts(mp)
           ELSE /\ frame' = [m |-> frame.m,
                             baby_steps |-> frame.baby_steps,
                             mp |-> mp,
                             jmp |-> ECPoint_infinity(args.self.a, args.self.b),
                             j |-> 0]
                /\ pc' = "giant_loop"
                /\ UNCHANGED <<op, args, ret>>

\* let q = target + (-jmp);
giant_q == ECPoint_add(args.target, ECPoint_neg(frame.jmp))

\* if let Some(i) = baby_steps.get(&q) { return Some(m * j + i); }
giant_hit ==
    /\ pc = "giant_loop"
    /\ frame.j < frame.m
    /\ ~IsPanic(giant_q)
    /\ giant_q \in DOMAIN frame.baby_steps
    /\ ret' = Some(frame.m * frame.j + frame.baby_steps[giant_q])
    /\ pc' = "done"
    /\ UNCHANGED <<op, args, frame>>

\* jmp += mp;
giant_step ==
    /\ pc = "giant_loop"
    /\ frame.j < frame.m
    /\ IF IsPanic(giant_q)
       THEN Aborts(giant_q)
       ELSE /\ giant_q \notin DOMAIN frame.baby_steps
            /\ LET jmp == ECPoint_add(frame.jmp, frame.mp)
               IN  IF IsPanic(jmp)
                   THEN Aborts(jmp)
                   ELSE /\ frame' = [frame EXCEPT !.jmp = jmp, !.j = @ + 1]
                        /\ UNCHANGED <<op, args, pc, ret>>

\* The giant steps are used up: None.
giant_none ==
    /\ pc = "giant_loop"
    /\ frame.j >= frame.m
    /\ ret' = None
    /\ pc' = "done"
    /\ UNCHANGED <<op, args, frame>>

(***************************************************************************)
(* Specifications: the field operations, the point operations, the loops   *)
(* of order and the solvers, and all of them together.                     *)
(***************************************************************************)
FeltNext ==
    \/ Call_Felt_new
    \/ Call_Felt_add
    \/ Call_Felt_sub
    \/ Call_Felt_mul
    \/ Call_Felt_div
    \/ Call_Felt_neg
    \/ Call_Felt_inverse
    \/ Call_Felt_pow

PointNext ==
    \/ Call_ECPoint_new
    \/ Call_ECPoint_infinity
    \/ Call_ECPoint_add
    \/ Call_ECPoint_neg
    \/ Call_ECPoint_mul
    \/ Call_u64_mul

DlpStep ==
    \/ order_step
    \/ order_return
    \/ brute_found
    \/ brute_step
    \/ brute_none
    \/ baby_step
    \/ baby_done
    \/ giant_hit
    \/ giant_step
    \/ giant_none

DlpNext ==
    \/ Call_order
    \/ Call_solve_dlp_brute_force
    \/ Call_solve_dlp_baby_step_giant_step
    \/ DlpStep

Next == FeltNext \/ PointNext \/ DlpNext

FeltSpec == Init /\ [][FeltNext]_vars
PointSpec == Init /\ [][PointNext]_vars
DlpSpec == Init /\ [][DlpNext]_vars
Spec == Init /\ [][Next]_vars

(***************************************************************************)
(* Reference notions the properties are stated with.                       *)
(***************************************************************************)
\* <<1P, 2P, ..., nP>>: P added to the identity once, twice, ..., n times.
RECURSIVE Walk(_, _)
Walk(P, n) ==
    IF n = 0 THEN <<>>
    ELSE LET w == Walk(P, n - 1)
             last == IF n = 1 THEN ECPoint_infinity(P.a, P.b) ELSE w[n - 1]
         IN  Append(w, ECPoint_add(last, P))

\* P added to the identity exactly k times.
NTimes(P, k) == IF k = 0 THEN ECPoint_infinity(P.a, P.b) ELSE Walk(P, k)[k]

\* The multiples 1P .. MaxSteps P.
Multiples(P) == Walk(P, MaxSteps)

\* The least index at which w holds Q, 0 if it holds Q nowhere.
FirstIndex(w, Q) ==
    LET at == {k \in 1..Len(w) : w[k] = Q}
    IN  IF at = {} THEN 0 ELSE CHOOSE k \in at : \A l \in at : k <= l

\* The least k >= 1 with kP = infinity, 0 if there is none up to MaxSteps.
OrderIn(w, P) == FirstIndex(w, ECPoint_infinity(P.a, P.b))
MinOrder(P) == OrderIn(Multiples(P), P)

\* The least k with 1 <= k < order(P) and kP = T, or None.
LogIn(w, P, T) ==
    LET k == FirstIndex(w, T)
    IN  IF k # 0 /\ k < OrderIn(w, P) THEN Some(k) ELSE None
LeastLog(P, T) == LogIn(Multiples(P), P, T)

Returned(name) == op = name /\ pc = "done"

(***************************************************************************)
(* Properties.                                                             *)
(***************************************************************************)
\* C1: whenever solve_dlp_baby_step_giant_step(P, T) returns Some(k), that k
\* satisfies k*P = T and 1 <= k <= order(P).
C1_BsgsResultInRange ==
    (Returned("solve_dlp_baby_step_giant_step") /\ ret # None) =>
        /\ ECPoint_mul(args.self, ret.some) = args.target
        /\ 1 <= ret.some
        /\ ret.some <= MinOrder(args.self)

\* C2: solve_dlp_baby_step_giant_step(P, T) returns what solve_dlp_brute_force
\* (P, T) returns: the least positive k with k*P = T that the walk of P meets,
\* and None when there is none.
C2_BsgsAgreesWithBruteForce ==
    Returned("solve_dlp_baby_step_giant_step") => ret = LeastLog(args.self, args.target)

\* C3: solve_dlp_brute_force(P, T) keeps x*P in xp by repeated addition,
\* returns the least k with 1 <= k < order(P) and k*P = T, and returns None
\* exactly when there is no such k (so for T = infinity and for P = infinity).
\* It terminates: it never panics, every iteration advances x by one, and x
\* never passes order(P), which is below the cap of the model.
C3_BruteForceLeastLog ==
    /\ [](op = "solve_dlp_brute_force" =>
            LET w == Multiples(args.self)
            IN  /\ pc # "panic"
                /\ frame.x \in 1..MaxSteps
                /\ frame.xp = w[frame.x]
                /\ frame.x <= OrderIn(w, args.self)
                /\ OrderIn(w, args.self) < MaxSteps
                /\ pc = "done" =>
                     /\ ret = LogIn(w, args.self, args.target)
                     /\ (args.target.infinity \/ args.self.infinity => ret = None))
    /\ [][op = "solve_dlp_brute_force" /\ pc = "brute_loop" =>
            \/ pc' = "done"
            \/ pc' = "brute_loop" /\ frame'.x = frame.x + 1]_vars

\* A call of solve_dlp_brute_force that walked past 2P and found the target.
C3_Witness ==
    /\ Returned("solve_dlp_brute_force")
    /\ ret # None
    /\ ret.some >= 3

\* C5: order(P) returns the least k >= 1 for which P added k times is
\* infinity, and order(infinity) is 1.  It terminates: it never panics, every
\* iteration advances the count by one, gi is P added count times, and the
\* count never passes that least k, which is below the cap of the model.
C5_OrderIsLeast ==
    /\ [](op = "order" =>
            LET w == Multiples(args.self)
            IN  /\ pc # "panic"
                /\ frame.order \in 1..MaxSteps
                /\ frame.gi = w[frame.order]
                /\ frame.order <= OrderIn(w, args.self)
                /\ OrderIn(w, args.self) < MaxSteps
                /\ pc = "done" =>
                     /\ ret = U64(OrderIn(w, args.self))
                     /\ (args.self.infinity => ret = U64(1)))
    /\ [][op = "order" /\ pc = "order_loop" =>
            \/ pc' = "done"
            \/ pc' = "order_loop" /\ frame'.order = frame.order + 1]_vars

\* A call of order on a point of order at least 5 has returned.
C5_Witness ==
    /\ Returned("order")
    /\ ret.u64 >= 5
    /\ ~args.self.infinity

\* C4: for a point P of a curve over a prime modulus and a scalar k >= 0,
\* P * k returns P added to the identity exactly k times (P * 0 is infinity,
\* P * 1 is P), and k * P returns the same.
C4_MulIsRepeatedAddition ==
    /\ op = "ECPoint::mul" =>
        /\ pc = "done"
        /\ ret = NTimes(args.self, args.other)
        /\ (args.other = 0 => ret = ECPoint_infinity(args.self.a, args.self.b))
        /\ (args.other = 1 => ret = args.self)
    /\ op = "u64::mul" =>
        /\ pc = "done"
        /\ ret = NTimes(args.other, args.self)

\* P * k has returned a finite point for a finite P and a k of three bits.
C4_Witness ==
    /\ Returned("ECPoint::mul")
    /\ args.other >= 5
    /\ ~args.self.infinity
    /\ ~ret.infinity
    /\ ret # args.self

\* The negative of a point as the property states it: infinity is its own
\* negative, a finite point keeps x and negates y.
NegOf(P) ==
    IF P.infinity THEN P
    ELSE [P EXCEPT !.y = [value |-> (P.y.modulus - P.y.value) % P.y.modulus,
                          modulus |-> P.y.modulus]]

\* C6: P + infinity = P, infinity + P = P, infinity + infinity = infinity and
\* P + (-P) = infinity on one curve, where -infinity is infinity and -P keeps
\* x and negates y.
C6_IdentityAndInverse ==
    /\ op = "ECPoint::add" =>
        LET P == args.self
            Q == args.other
        IN  /\ (Q = ECPoint_infinity(P.a, P.b) => ret = P)
            /\ (P = ECPoint_infinity(Q.a, Q.b) => ret = Q)
            /\ (P.infinity /\ Q.infinity /\ SameCurve(P, Q) =>
                    ret = ECPoint_infinity(P.a, P.b))
            /\ (Q = NegOf(P) => ret = ECPoint_infinity(P.a, P.b))
    /\ op = "ECPoint::neg" => ret = NegOf(args.self)

\* P + (-P) has returned infinity for a finite P that is not its own negative.
C6_Witness ==
    /\ Returned("ECPoint::add")
    /\ ~args.self.infinity
    /\ args.self.y.value # 0
    /\ args.other = NegOf(args.self)
    /\ args.other # args.self
    /\ ret.infinity

\* The four arguments of ECPoint::new are of one modulus.
OneModulus(t) ==
    /\ t.x.modulus = t.a.modulus
    /\ t.y.modulus = t.a.modulus
    /\ t.b.modulus = t.a.modulus

\* y^2 = x^3 + a*x + b modulo the modulus, in plain integers.
OnCurve(t) ==
    (t.y.value * t.y.value) % t.a.modulus =
        (t.x.value * t.x.value * t.x.value + t.a.value * t.x.value + t.b.value)
            % t.a.modulus

\* C7: ECPoint::new(x, y, a, b) on four elements of one modulus returns the
\* finite point with exactly those coordinates if and only if
\* y^2 = x^3 + a*x + b modulo it, and the error PointNotOnCurve(x, y, a, b)
\* otherwise.
C7_NewValidatesMembership ==
    (op = "ECPoint::new" /\ OneModulus(args)) =>
        IF OnCurve(args)
        THEN ret = Ok([x |-> args.x, y |-> args.y, a |-> args.a, b |-> args.b,
                       infinity |-> FALSE])
        ELSE ret = [err |-> "PointNotOnCurve", x |-> args.x.value,
                    y |-> args.y.value, a |-> args.a.value, b |-> args.b.value]

\* ECPoint::new has refused a pair (x, y) that is off a curve with b # 0.
C7_Witness ==
    /\ Returned("ECPoint::new")
    /\ OneModulus(args)
    /\ args.b.value # 0
    /\ ~OnCurve(args)
    /\ IsErr(ret)

\* C8: every curve point that the constructors and the operations return has
\* its four field elements x, y, a, b of one modulus.
C8_PointOfOneModulus ==
    LET points == IF IsPoint(ret) THEN {ret}
                  ELSE IF IsOk(ret) THEN {ret.ok}
                  ELSE {}
    IN  \A P \in points : OneModulus(P)

\* C9: add(P, Q) with P.a # Q.a or P.b # Q.b panics with the curve mismatch,
\* before any other case is looked at, also when P or Q is infinity.
C9_CurveMismatchPanics ==
    (op = "ECPoint::add" /\ ~SameCurve(args.self, args.other)) =>
        /\ pc = "panic"
        /\ ret = Panic("Points are not on the same curve")

\* add has panicked on two infinities of different curves.
C9_Witness ==
    /\ op = "ECPoint::add"
    /\ args.self.infinity
    /\ args.other.infinity
    /\ args.self.a # args.other.a
    /\ pc = "panic"

\* A field element of the given modulus with its value reduced.
Reduced(f, modulus) ==
    /\ IsFelt(f)
    /\ f.modulus = modulus
    /\ 0 <= f.value
    /\ f.value < modulus

\* C10: Felt::new(value, modulus) holds value mod modulus; every element that
\* add, sub, mul, div, neg, pow or inverse returns has 0 <= value < modulus
\* and the modulus of the operands; neg(0) = 0 and a + (-a) = 0.
C10_ResidueInRange ==
    /\ op = "Felt::new" =>
        ret = [value |-> args.value % args.modulus, modulus |-> args.modulus]
    /\ (op \in {"Felt::add", "Felt::sub", "Felt::mul", "Felt::div", "Felt::neg",
                "Felt::pow"} /\ pc = "done") =>
        Reduced(ret, args.self.modulus)
    /\ (op = "Felt::inverse" /\ IsOk(ret)) => Reduced(ret.ok, args.self.modulus)
    /\ (op \in {"Felt::add", "Felt::sub", "Felt::mul"}
            /\ args.self.modulus = args.other.modulus) => pc = "done"
    /\ (op = "Felt::neg" /\ args.self.value = 0) => ret.value = 0
    /\ (op = "Felt::add" /\ args.other = Felt_neg(args.self)) => ret.value = 0

\* neg has returned for the zero of a modulus.
C10_Witness ==
    /\ Returned("Felt::neg")
    /\ args.self.value = 0
    /\ ret = args.self

\* The greatest common divisor, by its definition.
Gcd(m, n) ==
    CHOOSE d \in 1..(IF m > n THEN m ELSE n) :
        /\ m % d = 0 /\ n % d = 0
        /\ \A e \in (d + 1)..(IF m > n THEN m ELSE n) : m % e # 0 \/ n % e # 0

\* The residues t of [0, modulus) with value * t = 1 (mod modulus).
InversesOf(value, modulus) ==
    {t \in 0..(modulus - 1) : (value * t) % modulus = 1}

\* C11: for modulus > 1, inverse succeeds exactly when gcd(value, modulus) = 1
\* and then returns the one t of [0, modulus) with value * t = 1 (mod
\* modulus); otherwise, value 0 included, it returns
\* NotInvertible(value, modulus).
C11_InverseIffCoprime ==
    op = "Felt::inverse" =>
        LET value == args.self.value
            modulus == args.self.modulus
        IN  /\ pc = "done"
            /\ IsOk(ret) <=> Gcd(value, modulus) = 1
            /\ IsOk(ret) =>
                    /\ ret.ok.modulus = modulus
                    /\ InversesOf(value, modulus) = {ret.ok.value}
            /\ ~IsOk(ret) =>
                    ret = [err |-> "NotInvertible", value |-> value,
                           modulus |-> modulus]

\* inverse has succeeded over a composite modulus: 5 is its own inverse
\* modulo 6.
C11_Witness ==
    /\ Returned("Felt::inverse")
    /\ args.self = [value |-> 5, modulus |-> 6]
    /\ ret = Ok([value |-> 5, modulus |-> 6])

\* C12: div(a, b) on equal moduli fails with the division-by-zero outcome
\* when b's value is 0, decided ahead of the inverse and never reported as
\* NotInvertible; when b is invertible the result is a * b.inverse(), so
\* (a / b) * b = a.
C12_DivZeroFirstElseTimesInverse ==
    op = "Felt::div" /\ args.self.modulus = args.other.modulus =>
        LET a == args.self
            b == args.other
        IN  /\ b.value = 0 =>
                    /\ pc = "panic"
                    /\ ret = Panic("Cannot divide by zero")
                    /\ ret # Panic("is not invertible")
            /\ Gcd(b.value, b.modulus) = 1 =>
                    /\ pc = "done"
                    /\ ret = Felt_mul(a, Felt_inverse(b).ok)
                    /\ Felt_mul(ret, b) = a
                    /\ (ret.value * b.value) % b.modulus = a.value

\* A division by an invertible element has returned: 3 / 4 = 6 modulo 7.
C12_Witness ==
    /\ Returned("Felt::div")
    /\ args.self = [value |-> 3, modulus |-> 7]
    /\ args.other = [value |-> 4, modulus |-> 7]
    /\ ret = [value |-> 6, modulus |-> 7]

\* A call of div on equal moduli whose divisor has the value 0.
DivByZeroCall ==
    /\ op = "Felt::div"
    /\ args.self.modulus = args.other.modulus
    /\ args.other.value = 0

\* C13, as stated: a division by zero reaches the caller as a recoverable
\* result value (DivisionByZero), not as an abort of the program.
C13_DivByZeroIsResult ==
    DivByZeroCall =>
        /\ pc = "done"
        /\ IsErr(ret)
        /\ ret.err = "DivisionByZero"

\* C13, amended: a division by zero aborts the program with the panic
\* "Cannot divide by zero" and gives the caller no value; the one error value
\* the field operations return is NotInvertible, and only inverse returns it.
C13_DivByZeroAborts ==
    /\ DivByZeroCall =>
            /\ pc = "panic"
            /\ ret = Panic("Cannot divide by zero")
            /\ ~IsErr(ret) /\ ~IsOk(ret) /\ ~IsFelt(ret)
    /\ IsErr(ret) => op = "Felt::inverse" /\ ret.err = "NotInvertible"

\* A division of a non-zero element by zero has aborted.
C13_Witness ==
    /\ DivByZeroCall
    /\ args.self.value # 0
    /\ pc = "panic"
    /\ IsPanic(ret)

\* The panic message of each binary field operation on differing moduli.
MismatchMessage ==
    [x \in {"Felt::add", "Felt::sub", "Felt::mul", "Felt::div"} |->
        CASE x = "Felt::add" -> "Cannot add two Felt values with different moduli"
          [] x = "Felt::sub" -> "Cannot subtract two Felt values with different moduli"
          [] x = "Felt::mul" -> "Cannot multiply two Felt values with different moduli"
          [] x = "Felt::div" -> "Cannot divide two Felt values with different moduli"]

\* C14: add, sub, mul and div on two field elements of different moduli are
\* always rejected by a fatal abort and never return a field element,
\* whatever the two values are (a zero divisor included).
C14_ModulusMismatchAborts ==
    op \in DOMAIN MismatchMessage /\ args.self.modulus # args.other.modulus =>
        /\ pc = "panic"
        /\ ret = Panic(MismatchMessage[op])
        /\ ~IsFelt(ret)

\* A division of elements of different moduli by a zero element has aborted
\* on the moduli, not on the zero.
C14_Witness ==
    /\ op = "Felt::div"
    /\ args.self.modulus = 5
    /\ args.other = [value |-> 0, modulus |-> 7]
    /\ pc = "panic"
    /\ ret = Panic("Cannot divide two Felt values with different moduli")

\* A call add(P, P) for a finite point P with y == 0.
DoublingOfOrderTwo ==
    /\ op = "ECPoint::add"
    /\ args.self = args.other
    /\ ~args.self.infinity
    /\ args.self.y.value = 0

\* C15, as stated: doubling a point with y == 0 is not special-cased and
\* surfaces as a field-division failure (DivisionByZero) from the slope
\* (3 x^2 + a) / (2 y).
C15_DoublingOrderTwoFails ==
    DoublingOfOrderTwo =>
        /\ ~IsPoint(ret)
        /\ \/ ret = Panic("Cannot divide by zero")
           \/ IsErr(ret) /\ ret.err = "DivisionByZero"

\* C15, amended: doubling a point P with y == 0 returns the point at infinity
\* of P's curve: P is its own negative, so the case P == -Q answers before a
\* slope is computed, although the doubling slope of P would divide by zero.
C15_DoublingOrderTwoIsInfinity ==
    DoublingOfOrderTwo =>
        /\ pc = "done"
        /\ ret = ECPoint_infinity(args.self.a, args.self.b)
        /\ NegOf(args.self) = args.self
        /\ add_slope(args.self, args.self) = Panic("Cannot divide by zero")

\* A point with y == 0 over an odd modulus has been doubled to infinity.
C15_Witness ==
    /\ DoublingOfOrderTwo
    /\ args.self.y.modulus > 2
    /\ Returned("ECPoint::add")
    /\ ret.infinity

\* R is a returned point of P's curve: the call has not aborted, R keeps
\* (a, b), satisfies the equation unless it is infinity, and is again one of
\* the valid points the operations are called on, which carries the
\* statement from one operation to every sequence of them.
StaysOnCurveOf(P, R) ==
    /\ pc = "done"
    /\ IsPoint(R)
    /\ R.a = P.a /\ R.b = P.b
    /\ OneModulus(R)
    /\ ~R.infinity => OnCurve(R)
    /\ R \in PrimePoints

\* C16: over a prime modulus, add, neg and scalar multiplication on valid
\* points of one curve return points that satisfy y^2 = x^3 + a*x + b unless
\* they are infinity and keep (a, b); the validating constructor inside add
\* and neg never fails, and in the general case of add (two finite points
\* that are neither equal nor negatives of each other) the x differ and the
\* slope division does not fail.
C16_GroupLawStaysOnCurve ==
    /\ op = "ECPoint::add" /\ SameCurve(args.self, args.other) =>
            /\ StaysOnCurveOf(args.self, ret)
            /\ (/\ ~args.self.infinity /\ ~args.other.infinity
                /\ args.self # args.other
                /\ args.self # NegOf(args.other)) =>
                    /\ args.self.x # args.other.x
                    /\ IsFelt(add_slope(args.self, args.other))
                    /\ ret = add_chord(args.self, args.other)
    /\ op = "ECPoint::neg" => StaysOnCurveOf(args.self, ret)
    /\ op = "ECPoint::mul" => StaysOnCurveOf(args.self, ret)
    /\ op = "u64::mul" => StaysOnCurveOf(args.other, ret)

\* A general addition over modulus 7 has returned a finite point.
C16_Witness ==
    /\ Returned("ECPoint::add")
    /\ args.self.a.modulus = 7
    /\ ~args.self.infinity /\ ~args.other.infinity
    /\ args.self # args.other
    /\ args.self # NegOf(args.other)
    /\ ~ret.infinity
    /\ OnCurve(ret)

====
